---- MODULE Spec2Model ----
(***************************************************************************)
(* A model of sonde-hunter-pi: the GPSD position listener (src/gpsd.py),   *)
(* the AutoRX telemetry listener (src/autorx.py), the fusion loop          *)
(* (src/main.py), the touch sampler (src/touch.py) and the display         *)
(* controller (src/display.py).                                            *)
(*                                                                         *)
(* Python dicts are functions whose DOMAIN is the set of keys present.     *)
(* Each thread has a program counter; a step of a thread is one action.    *)
(***************************************************************************)
EXTENDS Integers, Sequences, FiniteSets, TLC

VARIABLES
    \* ---- GPSDListener (src/gpsd.py)
    gpsdPc,                 \* position of the newest listener thread in _listen
    gpsd_orphan,            \* "running" while a thread started before the newest
                            \* one has not ended, "none" otherwise
    gpsd_run_listener,      \* self._run_listener
    gpsd_listener_thread,   \* self._listener_thread: "None" or "Thread"
    gpsdClosePc,            \* position of an outside caller inside close()
    gpsdSocket,             \* "none", "open", or "eof" once the peer has closed
    latest_output,          \* the dict object created at gpsd.py:94
    response,               \* _listen's local of gpsd.py:102, {} when dead
    gpsd_data,              \* the deque(maxlen=1) of main.py:20: references
    \* ---- AutoRXListener (src/autorx.py)
    autorxPc,               \* position of the listener thread in _listen
    autorx_run_listener,    \* self._run_listener
    autorx_listener_thread, \* self._listener_thread: "None" or "Thread"
    autorxClosePc,          \* position of an outside caller inside close()
    garbage_collect_counter,
    datagram,               \* the datagram recvfrom returned, {} when dead
    autorx_data,            \* the deque(maxlen=1) of main.py:25: packets
    now,                    \* datetime.now(timezone.utc), in seconds
    \* ---- main (src/main.py)
    mainPc,                 \* position of the main thread in main()
    run,                    \* main.py:60
    waited,                 \* time.time() - start_wait, in sleeps of 0.5 s
    ticks,                  \* passes of the main loop so far (bounds the model)
    gps_fixes,              \* the deque(maxlen=10) of main.py:89
    observed,               \* history: every fix value main.py:99 has read
    latest_gpsd_data,       \* main.py:92: a reference, "unset" before
    latest_autorx_data,     \* main.py:93: a packet or None
    gps_reliable,           \* main.py:100
    sigPc,                  \* position of the main thread in the signal handler
    \* ---- DisplayController (src/display.py)
    dispPc,                 \* position inside update(), "out" between calls
    touch_queue,            \* what touch_data is: "None", "deque", "deque1"
    touch_data,             \* the deque of pending touch points
    touch_point,            \* update's local of display.py:331
    block_touch,
    last_sonde_position,    \* None or <<latitude, longitude, time>>
    sleep_time,
    screen,                 \* what the last draw put on the display
    arrivals,               \* touch points appended so far (bounds the model)
    record_given,           \* history: an update that did not sleep was given a record
    touch_step,             \* history of the current call of update: how many
                            \* points it hit-tested, how many its clear removed
    \* ---- Xpt2046.get_touch (src/touch.py)
    touchPc,                \* position inside get_touch, "idle" before the call
    timeout,                \* touch.py:61, in sample periods of 0.05 s
    buffer,                 \* touch.py:63, the ring of samples
    buffer_index,           \* touch.py:65
    nsamples,               \* touch.py:66
    touch_result,           \* what get_touch returned: None or a point
    acquisitions,           \* history: calls of raw_touch so far
    recent,                 \* history: what the last five calls of raw_touch returned
    window_seen,            \* history: some five latest reads made a steady window
    irq_locked,             \* touch.py:54
    irq_seen                \* history: the press signals, raw reads and deliveries
                            \* since the press that found irq_locked False

gpsdVars == <<gpsdPc, gpsd_orphan, gpsd_run_listener, gpsd_listener_thread, gpsdClosePc,
              gpsdSocket, latest_output, response, gpsd_data>>

autorxVars == <<autorxPc, autorx_run_listener, autorx_listener_thread,
                autorxClosePc, garbage_collect_counter, datagram, autorx_data>>

mainVars == <<mainPc, run, waited, ticks, gps_fixes, observed, latest_gpsd_data,
              latest_autorx_data, gps_reliable, sigPc>>

displayVars == <<dispPc, touch_queue, touch_data, touch_point, block_touch,
                 last_sonde_position, sleep_time, screen, arrivals, touch_step,
                   record_given>>

touchVars == <<touchPc, timeout, buffer, buffer_index, nsamples, touch_result,
               acquisitions, recent, window_seen, irq_locked, irq_seen>>

vars == <<gpsdVars, autorxVars, now, mainVars, displayVars, touchVars>>

\* what a step of one component leaves alone
notGpsd == <<autorxVars, now, mainVars, displayVars, touchVars>>
notAutorx == <<gpsdVars, now, mainVars, displayVars, touchVars>>
notClock == <<gpsdVars, autorxVars, mainVars, displayVars, touchVars>>
notTouch == <<gpsdVars, autorxVars, now, mainVars, displayVars>>

-----------------------------------------------------------------------------
(* Bounds of the model.                                                    *)

\* latitude, longitude and altitude values range over 0..MaxCoord
MaxCoord == 1
\* a SKY document lists at most MaxSats satellites
MaxSats == 2
\* the clock runs up to MaxAges times the garbage collection age
MaxAges == 2
\* the main loop is followed for MaxTicks passes
MaxTicks == 2
\* the main loop is followed for MaxWindowTicks passes where only the
\* reliability window is looked at
MaxWindowTicks == 11
\* at most MaxTouches touch points are pending
MaxTouches == 2
\* at most MaxArrivals touch points arrive in all
MaxArrivals == 3
\* the press signals between two releases
MaxPresses == 3

-----------------------------------------------------------------------------
(* Python helpers.                                                         *)

\* the empty dict {}
EmptyDict == [k \in {} |-> 0]

\* dict.update: keys of other overwrite, every other key keeps its value
DictUpdate(d, other) ==
    [k \in (DOMAIN d) \cup (DOMAIN other) |->
        IF k \in DOMAIN other THEN other[k] ELSE d[k]]

\* deque(maxlen=1).append: the new element replaces whatever was there
AppendMaxlen1(q, x) == <<x>>

\* deque(maxlen=n).append: the oldest element goes once n are held
AppendMaxlen(q, x, n) == IF Len(q) < n THEN Append(q, x) ELSE Append(Tail(q), x)

\* Python's None
None == [none |-> TRUE]

-----------------------------------------------------------------------------
(* GPSD documents, as json.loads returns them.                             *)

Coord == 0..MaxCoord
Modes == 0..3

\* an optional key: absent, or present with one of the values
Opt(key, values) == {EmptyDict} \cup {[k \in {key} |-> v] : v \in values}

Merge3(a, b, c) == DictUpdate(DictUpdate(a, b), c)

TPVDocuments ==
    { DictUpdate(DictUpdate([class |-> "TPV"], m), Merge3(la, lo, al)) :
        m \in Opt("mode", Modes), la \in Opt("lat", Coord),
        lo \in Opt("lon", Coord), al \in Opt("alt", Coord) }

\* one entry of "satellites": {"used": bool} or an entry without "used"
SatEntries == {[used |-> TRUE], [used |-> FALSE], [PRN |-> 1]}

SatLists == UNION {[1..n -> SatEntries] : n \in 0..MaxSats}

SKYDocuments ==
    {[class |-> "SKY"]} \cup {[class |-> "SKY", satellites |-> s] : s \in SatLists}

OtherDocuments ==
    {[class |-> "VERSION", release |-> "3.22"], [class |-> "DEVICES"],
     [release |-> "3.22"]}

Documents == TPVDocuments \cup SKYDocuments \cup OtherDocuments

-----------------------------------------------------------------------------
(* GPSDListener (src/gpsd.py).                                             *)

\* the dict pushed at gpsd.py:94
Placeholder ==
    [latitude |-> 0, longitude |-> 0, altitude |-> 0, satellites |-> 0, fix |-> "NO"]

FixFields == {"latitude", "longitude", "altitude", "satellites", "fix"}

\* the number of entries of a satellites list flagged used (gpsd.py:58-61)
UsedCount(sats) == Cardinality({i \in DOMAIN sats : sats[i]["used"]})

\* a mapping of the TPV mode that takes mode 2 for no fix
FixOfModeFrom3(fix) ==
    IF fix <= 2 THEN [fix |-> "NO"]
    ELSE IF fix = 3 THEN [fix |-> "3D"]
    ELSE EmptyDict

\* the "fix" entry _process_response writes for a TPV mode (gpsd.py:49-54)
FixOfMode(fix) ==
    IF fix <= 1 THEN [fix |-> "NO"]
    ELSE IF fix = 2 THEN [fix |-> "2D"]
    ELSE IF fix = 3 THEN [fix |-> "3D"]
    ELSE EmptyDict

\* a _process_response whose KeyError handler returns the fields gathered so far
ProcessResponsePartial(resp) ==
    IF "class" \notin DOMAIN resp THEN EmptyDict
    ELSE IF resp["class"] = "TPV" THEN
        IF "mode" \notin DOMAIN resp THEN EmptyDict
        ELSE LET fix == resp["mode"] IN
            IF fix > 1 /\ "lat" \notin DOMAIN resp THEN EmptyDict
            ELSE IF fix > 1 /\ "lon" \notin DOMAIN resp
                THEN [latitude |-> resp["lat"]]
            ELSE IF fix = 3 /\ "alt" \notin DOMAIN resp
                THEN [latitude |-> resp["lat"], longitude |-> resp["lon"], fix |-> "3D"]
            ELSE Merge3(
                IF fix > 1
                    THEN [latitude |-> resp["lat"], longitude |-> resp["lon"]]
                    ELSE EmptyDict,
                FixOfMode(fix),
                IF fix = 3 THEN [altitude |-> resp["alt"]] ELSE EmptyDict)
    ELSE IF resp["class"] = "SKY" THEN
        IF "satellites" \in DOMAIN resp THEN
            IF \E i \in DOMAIN resp["satellites"] :
                    "used" \notin DOMAIN resp["satellites"][i]
                THEN EmptyDict
                ELSE [satellites |-> UsedCount(resp["satellites"])]
        ELSE EmptyDict
    ELSE EmptyDict

\* _process_response: the dict of the fields a document yields; a KeyError on
\* any read of a missing key makes it return {} (gpsd.py:64-67)
ProcessResponse(resp) ==
    IF "class" \notin DOMAIN resp THEN EmptyDict
    ELSE IF resp["class"] = "TPV" THEN
        IF "mode" \notin DOMAIN resp THEN EmptyDict
        ELSE LET fix == resp["mode"] IN
            IF fix > 1 /\ "lat" \notin DOMAIN resp THEN EmptyDict
            ELSE IF fix > 1 /\ "lon" \notin DOMAIN resp THEN EmptyDict
            ELSE IF fix = 3 /\ "alt" \notin DOMAIN resp THEN EmptyDict
            ELSE Merge3(
                IF fix > 1
                    THEN [latitude |-> resp["lat"], longitude |-> resp["lon"]]
                    ELSE EmptyDict,
                FixOfMode(fix),
                IF fix = 3 THEN [altitude |-> resp["alt"]] ELSE EmptyDict)
    ELSE IF resp["class"] = "SKY" THEN
        IF "satellites" \in DOMAIN resp THEN
            IF \E i \in DOMAIN resp["satellites"] :
                    "used" \notin DOMAIN resp["satellites"][i]
                THEN EmptyDict
                ELSE [satellites |-> UsedCount(resp["satellites"])]
        ELSE EmptyDict
    ELSE EmptyDict

\* a listener that replaces the fix by what the document yields
ApplyResponseReplacing(latest, resp) == DictUpdate(Placeholder, ProcessResponse(resp))

\* latest_output.update(response_info) (gpsd.py:106)
ApplyResponse(latest, resp) == DictUpdate(latest, ProcessResponse(resp))

\* what a _receive_response call can end with, besides a document: a line that
\* is not a JSON object (json.loads raises, or the later indexing does), or an
\* OSError of the socket
ReceiveFailures == {"garbage", "oserror"}

\* what the first _receive_response call (gpsd.py:84) can end with
VersionOutcomes == {"version", "other document"} \cup ReceiveFailures

\* gpsd.py:76-79: create_connection and the ?WATCH command
GpsdConnect ==
    /\ gpsdPc = "connect"
    /\ \E ok \in BOOLEAN :
        IF ok
            THEN gpsdSocket' = "open" /\ gpsdPc' = "version"
            ELSE gpsdSocket' = "none" /\ gpsdPc' = "except"
    /\ UNCHANGED <<gpsd_run_listener, gpsd_listener_thread, gpsdClosePc, gpsd_orphan,
                   latest_output, response, gpsd_data>>
    /\ UNCHANGED notGpsd

\* gpsd.py:82-95: the version header is read, any exception of that read is
\* only logged, and the placeholder is pushed
GpsdVersion ==
    /\ gpsdPc = "version"
    /\ gpsdSocket \in {"open", "broken"}
    /\ \E outcome \in VersionOutcomes :
        /\ gpsdSocket = "broken" => outcome = "oserror"
        /\ gpsdSocket' = IF outcome = "oserror" THEN "broken" ELSE gpsdSocket
    /\ latest_output' = Placeholder
    /\ gpsd_data' = AppendMaxlen1(gpsd_data, "latest_output")
    /\ gpsdPc' = "setrun"
    /\ UNCHANGED <<gpsd_run_listener, gpsd_listener_thread, gpsdClosePc, gpsd_orphan, response>>
    /\ UNCHANGED notGpsd

\* gpsd.py:99
GpsdSetRun ==
    /\ gpsdPc = "setrun"
    /\ gpsd_run_listener' = TRUE
    /\ gpsdPc' = "loop"
    /\ UNCHANGED <<gpsd_listener_thread, gpsdClosePc, gpsd_orphan, gpsdSocket, latest_output,
                   response, gpsd_data>>
    /\ UNCHANGED notGpsd

\* gpsd.py:100: the while test.  The document of the last round is not read
\* again before gpsd.py:102 assigns the next one; it is forgotten here
GpsdLoopTest ==
    /\ gpsdPc = "loop"
    /\ gpsdPc' = IF gpsd_run_listener THEN "recv" ELSE "done"
    /\ response' = EmptyDict
    /\ UNCHANGED <<gpsd_run_listener, gpsd_listener_thread, gpsdClosePc, gpsd_orphan, gpsdSocket,
                   latest_output, gpsd_data>>
    /\ UNCHANGED notGpsd

\* gpsd.py:102 with a document received
GpsdReceive(docs) ==
    /\ gpsdPc = "recv"
    /\ gpsdSocket = "open"
    /\ \E doc \in docs : response' = doc
    /\ gpsdPc' = "process"
    /\ UNCHANGED <<gpsd_run_listener, gpsd_listener_thread, gpsdClosePc, gpsd_orphan, gpsdSocket,
                   latest_output, gpsd_data>>
    /\ UNCHANGED notGpsd

\* gpsd.py:103-107: the document is processed, merged into latest_output and
\* the dict is pushed again
GpsdProcess ==
    /\ gpsdPc = "process"
    /\ latest_output' = ApplyResponse(latest_output, response)
    /\ gpsd_data' = AppendMaxlen1(gpsd_data, "latest_output")
    /\ gpsdPc' = "loop"
    /\ UNCHANGED <<gpsd_run_listener, gpsd_listener_thread, gpsdClosePc, gpsd_orphan, gpsdSocket,
                   response>>
    /\ UNCHANGED notGpsd

\* gpsd.py:102-103 raising: the exception leaves the while loop (gpsd.py:109)
GpsdReceiveFails ==
    /\ gpsdPc = "recv"
    /\ gpsdSocket \in {"open", "broken"}
    /\ \E outcome \in ReceiveFailures :
        /\ gpsdSocket = "broken" => outcome = "oserror"
        /\ gpsdSocket' = IF outcome = "oserror" THEN "broken" ELSE gpsdSocket
    /\ gpsdPc' = "except"
    /\ UNCHANGED <<gpsd_run_listener, gpsd_listener_thread, gpsdClosePc, gpsd_orphan,
                   latest_output, response, gpsd_data>>
    /\ UNCHANGED notGpsd

\* gpsd.py:26-28 once the peer has closed: recv(1) returns b"", the buffer
\* gains nothing, "\n" is still not in it, and the while goes round again
GpsdReceiveEof ==
    /\ gpsdPc \in {"version", "recv"}
    /\ gpsdSocket = "eof"
    /\ UNCHANGED gpsdVars
    /\ UNCHANGED notGpsd

\* the peer closes the connection
GpsdPeerCloses ==
    /\ gpsdSocket = "open"
    /\ gpsdSocket' = "eof"
    /\ UNCHANGED <<gpsdPc, gpsd_run_listener, gpsd_listener_thread, gpsdClosePc, gpsd_orphan,
                   latest_output, response, gpsd_data>>
    /\ UNCHANGED notGpsd

\* gpsd.py:109-112: close() called by the listener thread itself; join raises
\* RuntimeError at once (gpsd.py:128-131)
GpsdExcept ==
    /\ gpsdPc = "except"
    /\ IF gpsd_listener_thread # "None"
        THEN gpsd_run_listener' = FALSE /\ gpsd_listener_thread' = "None"
        ELSE UNCHANGED <<gpsd_run_listener, gpsd_listener_thread>>
    /\ gpsdPc' = "done"
    /\ UNCHANGED <<gpsdClosePc, gpsd_orphan, gpsdSocket, latest_output, response, gpsd_data>>
    /\ UNCHANGED notGpsd

\* GPSDListener.start (gpsd.py:114-119).  The Thread object of an earlier
\* start() is not looked at: when that thread has not ended it runs on beside
\* the new one
GpsdStart ==
    IF gpsd_listener_thread = "None"
        THEN /\ gpsd_listener_thread' = "Thread"
             /\ gpsdPc' = "connect"
             /\ gpsd_orphan' = IF gpsdPc \in {"none", "done"} THEN gpsd_orphan
                                                              ELSE "running"
             /\ UNCHANGED <<gpsd_run_listener, gpsdClosePc, gpsdSocket,
                            latest_output, response, gpsd_data>>
        ELSE UNCHANGED gpsdVars

\* GPSDListener.close up to the join (gpsd.py:124-129)
GpsdCloseBegin ==
    /\ gpsdClosePc = "idle"
    /\ IF gpsd_listener_thread # "None"
        THEN gpsd_run_listener' = FALSE /\ gpsdClosePc' = "join"
        ELSE UNCHANGED <<gpsd_run_listener, gpsdClosePc>>
    /\ UNCHANGED <<gpsdPc, gpsd_orphan, gpsd_listener_thread, gpsdSocket, latest_output,
                   response, gpsd_data>>

\* GPSDListener.close from the join on (gpsd.py:129-133): join returns when the
\* thread has ended, or after 3 seconds.  self._listener_thread is read again
\* for the join: when the listener thread has run close() itself before that
\* read it is None, and None.join raises AttributeError, which gpsd.py:130
\* does not catch; when it did so after that read the join returns
GpsdCloseJoin ==
    /\ gpsdClosePc = "join"
    /\ IF gpsd_listener_thread = "None"
        THEN /\ \E loadedBefore \in BOOLEAN :
                    gpsdClosePc' = IF loadedBefore THEN "idle" ELSE "raised"
             /\ UNCHANGED gpsd_listener_thread
        ELSE /\ \E timedOut \in BOOLEAN : timedOut \/ gpsdPc = "done"
             /\ gpsd_listener_thread' = "None"
             /\ gpsdClosePc' = "idle"
    /\ UNCHANGED <<gpsdPc, gpsd_orphan, gpsd_run_listener, gpsdSocket, latest_output,
                   response, gpsd_data>>

-----------------------------------------------------------------------------
(* AutoRXListener (src/autorx.py).                                         *)

\* autorx.py:10
GARBAGE_COLLECT_AGE == 3600

\* autorx.py:70: the housekeeping pass runs every 10th loop
GARBAGE_COLLECT_LOOPS == 10

\* the latitudes and longitudes of the sondes, in units of 0.000001 degrees:
\* multiples of 0.000006, none of them halfway between two multiples of 0.00001
SondeCoord == {6 * c : c \in Coord}

\* what json.loads makes of the datagrams that decode: payload summaries and a
\* message of another type
Packets ==
    {[type |-> "PAYLOAD_SUMMARY", callsign |-> "S1", latitude |-> la, longitude |-> lo] :
        la \in SondeCoord, lo \in SondeCoord}
    \cup {[type |-> "GPS", callsign |-> "S1"]}

\* the datagrams whose decoding raises inside the try of autorx.py:56: bytes
\* that are not JSON (json.JSONDecodeError at autorx.py:57), a JSON object
\* without "type" (KeyError at autorx.py:58), a payload summary without
\* "callsign" (KeyError at autorx.py:59)
BadDatagrams ==
    {[notjson |-> TRUE], [callsign |-> "S1"],
     [type |-> "PAYLOAD_SUMMARY", latitude |-> 0, longitude |-> 0]}

Datagrams == Packets \cup BadDatagrams

\* whether autorx.py:57-59 run through without an exception
Decodes(d) ==
    /\ "notjson" \notin DOMAIN d
    /\ "type" \in DOMAIN d
    /\ d["type"] = "PAYLOAD_SUMMARY" => "callsign" \in DOMAIN d

\* autorx.py:62-64: the packet stamped with its receipt time
Stamped(packet, t) == DictUpdate(packet, [time |-> t])

\* autorx.py:29: the age the housekeeping pass computes for the head record
OutputDataAge(queue, t) == queue[1]["time"] - t

\* _garbage_collect_output (autorx.py:23-32): the queue it leaves
GarbageCollected(queue, t) ==
    IF Len(queue) = 0 THEN queue
    ELSE IF OutputDataAge(queue, t) >= GARBAGE_COLLECT_AGE THEN <<>>
    ELSE queue

\* autorx.py:38-53: the socket is bound and the run flag set; a bind that
\* raises goes to the handler of autorx.py:73
AutorxBind ==
    /\ autorxPc = "bind"
    /\ \E ok \in BOOLEAN :
        IF ok
            THEN /\ autorx_run_listener' = TRUE
                 /\ garbage_collect_counter' = 0
                 /\ autorxPc' = "loop"
            ELSE /\ autorxPc' = "except"
                 /\ UNCHANGED <<autorx_run_listener, garbage_collect_counter>>
    /\ UNCHANGED <<autorx_listener_thread, autorxClosePc, datagram, autorx_data>>
    /\ UNCHANGED notAutorx

\* autorx.py:54: the while test
AutorxLoopTest ==
    /\ autorxPc = "loop"
    /\ autorxPc' = IF autorx_run_listener THEN "recv" ELSE "done"
    /\ UNCHANGED <<autorx_run_listener, autorx_listener_thread, autorxClosePc,
                   garbage_collect_counter, datagram, autorx_data>>
    /\ UNCHANGED notAutorx

\* autorx.py:69-70: the counter after a loop, and where the thread goes next
Counted(counter) == counter + 1

AfterCount(counter) ==
    IF Counted(counter) = GARBAGE_COLLECT_LOOPS THEN "gc" ELSE "loop"

\* autorx.py:57: recvfrom returns a datagram
AutorxReceive(datagrams) ==
    /\ autorxPc = "recv"
    /\ \E d \in datagrams : datagram' = d
    /\ autorxPc' = "decode"
    /\ UNCHANGED <<autorx_run_listener, autorx_listener_thread, autorxClosePc,
                   garbage_collect_counter, autorx_data>>
    /\ UNCHANGED notAutorx

\* autorx.py:57, 65-70: recvfrom times out after 1 second
AutorxTimeout ==
    /\ autorxPc = "recv"
    /\ garbage_collect_counter' = Counted(garbage_collect_counter)
    /\ autorxPc' = AfterCount(garbage_collect_counter)
    /\ UNCHANGED <<autorx_run_listener, autorx_listener_thread, autorxClosePc,
                   datagram, autorx_data>>
    /\ UNCHANGED notAutorx

\* autorx.py:58-64: the queue after a datagram that decoded
Accepted(queue, packet, t) ==
    IF packet["type"] = "PAYLOAD_SUMMARY"
        THEN AppendMaxlen1(queue, Stamped(packet, t))
        ELSE queue

\* where a datagram whose decoding raises takes the thread: the inner try
\* catches socket.timeout only (autorx.py:65), so the exception reaches the
\* handler of autorx.py:73
AfterBadDatagram(counter) == "except"

\* autorx.py:57-70: the datagram is decoded; a payload summary is stamped and
\* appended, another type is passed over, and the loop is counted
AutorxDecode ==
    /\ autorxPc = "decode"
    /\ IF Decodes(datagram)
        THEN /\ autorx_data' = Accepted(autorx_data, datagram, now)
             /\ garbage_collect_counter' = Counted(garbage_collect_counter)
             /\ autorxPc' = AfterCount(garbage_collect_counter)
        ELSE /\ autorxPc' = AfterBadDatagram(garbage_collect_counter)
             /\ UNCHANGED <<garbage_collect_counter, autorx_data>>
    /\ datagram' = EmptyDict
    /\ UNCHANGED <<autorx_run_listener, autorx_listener_thread, autorxClosePc>>
    /\ UNCHANGED notAutorx

\* autorx.py:71-72: the housekeeping pass and the counter reset
AutorxGarbageCollect ==
    /\ autorxPc = "gc"
    /\ autorx_data' = GarbageCollected(autorx_data, now)
    /\ garbage_collect_counter' = 0
    /\ autorxPc' = "loop"
    /\ UNCHANGED <<autorx_run_listener, autorx_listener_thread, autorxClosePc,
                   datagram>>
    /\ UNCHANGED notAutorx

\* autorx.py:73-76: close() called by the listener thread itself; join raises
\* RuntimeError at once (autorx.py:92-95)
AutorxExcept ==
    /\ autorxPc = "except"
    /\ IF autorx_listener_thread # "None"
        THEN autorx_run_listener' = FALSE /\ autorx_listener_thread' = "None"
        ELSE UNCHANGED <<autorx_run_listener, autorx_listener_thread>>
    /\ autorxPc' = "done"
    /\ UNCHANGED <<autorxClosePc, garbage_collect_counter, datagram, autorx_data>>
    /\ UNCHANGED notAutorx

\* AutoRXListener.start (autorx.py:78-83)
AutorxStart ==
    IF autorx_listener_thread = "None"
        THEN /\ autorx_listener_thread' = "Thread"
             /\ autorxPc' = "bind"
             /\ UNCHANGED <<autorx_run_listener, autorxClosePc,
                            garbage_collect_counter, datagram, autorx_data>>
        ELSE UNCHANGED autorxVars

\* AutoRXListener.close up to the join (autorx.py:88-93)
AutorxCloseBegin ==
    /\ autorxClosePc = "idle"
    /\ IF autorx_listener_thread # "None"
        THEN autorx_run_listener' = FALSE /\ autorxClosePc' = "join"
        ELSE UNCHANGED <<autorx_run_listener, autorxClosePc>>
    /\ UNCHANGED <<autorxPc, autorx_listener_thread, garbage_collect_counter,
                   datagram, autorx_data>>

\* AutoRXListener.close from the join on (autorx.py:93-97): join returns when
\* the thread has ended, or after 3 seconds.  self._listener_thread is read
\* again for the join: when the listener thread has run close() itself before
\* that read it is None, and None.join raises AttributeError, which
\* autorx.py:94 does not catch; when it did so after that read the join returns
AutorxCloseJoin ==
    /\ autorxClosePc = "join"
    /\ IF autorx_listener_thread = "None"
        THEN /\ \E loadedBefore \in BOOLEAN :
                    autorxClosePc' = IF loadedBefore THEN "idle" ELSE "raised"
             /\ UNCHANGED autorx_listener_thread
        ELSE /\ \E timedOut \in BOOLEAN : timedOut \/ autorxPc = "done"
             /\ autorx_listener_thread' = "None"
             /\ autorxClosePc' = "idle"
    /\ UNCHANGED <<autorxPc, autorx_run_listener, garbage_collect_counter,
                   datagram, autorx_data>>

\* the clock moves on
TimeSteps == {GARBAGE_COLLECT_AGE - 1, GARBAGE_COLLECT_AGE}

TimePasses ==
    /\ \E d \in TimeSteps :
        /\ now + d <= MaxAges * GARBAGE_COLLECT_AGE
        /\ now' = now + d
    /\ UNCHANGED notClock

-----------------------------------------------------------------------------
(* DisplayController (src/display.py).  update() runs on the main thread;  *)
(* its steps are cut where it reads or writes the touch queue, which the   *)
(* touch producer appends to from another thread.                          *)

\* display.py:152-155: start_x, start_y, end_x, end_y, target
TouchButtons ==
    {[start_x |-> 100, start_y |-> 30, end_x |-> 70, end_y |-> 5,
      target |-> "_show_geo_qr"]}

\* the touch points that arrive: inside the button, on its corners, and just
\* outside of each edge
TouchPoints ==
    {<<85, 15>>, <<60, 15>>, <<100, 30>>, <<70, 5>>,
     <<101, 15>>, <<69, 15>>, <<85, 31>>, <<85, 4>>}

NoPoint == <<>>

\* a test that takes the first corner for the lower one
HitsLowerCornerFirst(touch_x, touch_y, button) ==
    /\ touch_x >= button.start_x
    /\ touch_y >= button.start_y
    /\ touch_x <= button.end_x
    /\ touch_y <= button.end_y

\* the test of display.py:291
Hits(touch_x, touch_y, button) ==
    /\ touch_x <= button.start_x
    /\ touch_y <= button.start_y
    /\ touch_x >= button.end_x
    /\ touch_y >= button.end_y

\* _check_touch (display.py:285-296): whether a button was triggered
ButtonTriggered(point) == \E button \in TouchButtons : Hits(point[1], point[2], button)

\* round(x, 5) of display.py:313-314, on coordinates held in units of 1e-6
\* that are not halfway between two multiples of 10
Round5(u) == 10 * ((u + 5) \div 10)

\* display.py:311-316
SondePosition(packet) ==
    [latitude |-> Round5(packet["latitude"]),
     longitude |-> Round5(packet["longitude"]),
     time |-> packet["time"]]

\* the dict a reference of the position queue stands for
Deref(ref) == latest_output

\* the deque TouchController and the software viewer append to: main.py:35
\* makes it unbounded, display.py:136 makes it a deque(maxlen=1)
TouchAppended(queue, point) ==
    IF touch_queue = "deque1" THEN AppendMaxlen1(queue, point) ELSE Append(queue, point)

\* TouchController._interrupt_handler (touch.py:168-171) and
\* SoftwareViewerDevice._mouse_click_callback (display.py:64-77), with the
\* point one of points
TouchArrivesFrom(points) ==
    /\ touch_queue # "None"
    /\ touch_queue = "deque" => Len(touch_data) < MaxTouches
    /\ arrivals < MaxArrivals
    /\ arrivals' = arrivals + 1
    /\ \E point \in points : touch_data' = TouchAppended(touch_data, point)
    /\ UNCHANGED <<dispPc, touch_queue, touch_point, block_touch, last_sonde_position,
                   sleep_time, screen, touch_step,
                   record_given>>
    /\ UNCHANGED <<gpsdVars, autorxVars, now, touchVars, mainVars>>

TouchArrives == TouchArrivesFrom(TouchPoints)

\* the history of a call of update that has not reached its touch step
NoTouchStep == [tested |-> 0, cleared |-> 0]

\* an update that takes one point off the queue and leaves the others
ClearedFirst(queue) == Tail(queue)

\* self.touch_data.clear(), display.py:332
Cleared(queue) == <<>>

\* an update that sleeps and keeps the sleep duration
AfterSleepKept(t) == t

\* self.sleep_time = 0 after time.sleep(self.sleep_time), display.py:305-306
AfterSleep(t) == 0

\* a controller that forgets the position when it is given no record
PositionAfterForgetting(packet, position) ==
    IF packet # None THEN SondePosition(packet) ELSE None

\* display.py:311-316: last_sonde_position after the test of autorx_data
PositionAfter(packet, position) ==
    IF packet # None THEN SondePosition(packet) ELSE position

\* update, display.py:301-320: a pending sleep is slept and the call returns;
\* otherwise the sonde position is kept
UpdateEnter(packet) ==
    /\ dispPc = "out"
    /\ IF sleep_time > 0
        THEN /\ sleep_time' = AfterSleep(sleep_time)
             /\ UNCHANGED <<dispPc, last_sonde_position, record_given>>
        ELSE /\ last_sonde_position' = PositionAfter(packet, last_sonde_position)
             /\ record_given' = (record_given \/ packet # None)
             /\ dispPc' = IF touch_queue # "None" THEN "touch_blocked" ELSE "render"
             /\ UNCHANGED sleep_time
    /\ touch_step' = NoTouchStep
    /\ UNCHANGED <<touch_queue, touch_data, touch_point, block_touch, screen, arrivals>>

\* display.py:326-328
UpdateTouchBlocked ==
    /\ dispPc = "touch_blocked"
    /\ sigPc = "none"
    /\ touch_data' = IF block_touch THEN <<>> ELSE touch_data
    /\ dispPc' = "touch_len"
    /\ UNCHANGED <<touch_queue, touch_point, block_touch, last_sonde_position,
                   sleep_time, screen, arrivals, touch_step,
                   record_given>>
    /\ UNCHANGED <<gpsdVars, autorxVars, now, touchVars, mainVars>>

\* display.py:330
UpdateTouchLen ==
    /\ dispPc = "touch_len"
    /\ sigPc = "none"
    /\ dispPc' = IF Len(touch_data) > 0 THEN "touch_take" ELSE "render"
    /\ UNCHANGED <<touch_queue, touch_data, touch_point, block_touch,
                   last_sonde_position, sleep_time, screen, arrivals, touch_step,
                   record_given>>
    /\ UNCHANGED <<gpsdVars, autorxVars, now, touchVars, mainVars>>

\* display.py:331
UpdateTouchTake ==
    /\ dispPc = "touch_take"
    /\ sigPc = "none"
    /\ touch_point' = touch_data[1]
    /\ dispPc' = "touch_check"
    /\ UNCHANGED <<touch_queue, touch_data, block_touch, last_sonde_position,
                   sleep_time, screen, arrivals, touch_step,
                   record_given>>
    /\ UNCHANGED <<gpsdVars, autorxVars, now, touchVars, mainVars>>

\* display.py:332-340 with _check_touch (285-296) and _show_geo_qr (249-283):
\* the queue is cleared; a point inside a button blocks touch, draws the QR
\* screen or "No sonde data yet", sets the sleep and ends the update
UpdateTouchCheck ==
    /\ dispPc = "touch_check"
    /\ sigPc = "none"
    /\ touch_data' = Cleared(touch_data)
    /\ touch_step' = [tested |-> touch_step.tested + 1, cleared |-> Len(touch_data)]
    /\ IF ButtonTriggered(touch_point)
        THEN /\ block_touch' = TRUE
             /\ screen' = IF last_sonde_position = None THEN "no sonde data" ELSE "qr"
             /\ sleep_time' = IF last_sonde_position = None THEN 3 ELSE 5
             /\ dispPc' = "out"
        ELSE /\ dispPc' = "render"
             /\ UNCHANGED <<block_touch, screen, sleep_time>>
    /\ UNCHANGED <<touch_queue, touch_point, last_sonde_position, arrivals,
                   record_given>>
    /\ UNCHANGED <<gpsdVars, autorxVars, now, touchVars, mainVars>>

\* a display that stays on the tracking screen once it has shown it
ScreenForSticky(autorx_data_arg) ==
    IF screen = "tracking" \/ autorx_data_arg # None THEN "tracking" ELSE "idle"

\* display.py:346-349: the screen drawn for the autorx_data passed to update
ScreenFor(autorx_data_arg) ==
    IF autorx_data_arg = None THEN "idle" ELSE "tracking"

\* display.py:342-359: touch is unblocked and the idle or the tracking screen
\* is drawn
UpdateRender ==
    /\ dispPc = "render"
    /\ sigPc = "none"
    /\ block_touch' = FALSE
    /\ screen' = ScreenFor(latest_autorx_data)
    /\ dispPc' = "out"
    /\ UNCHANGED <<touch_queue, touch_data, touch_point, last_sonde_position,
                   sleep_time, arrivals, touch_step,
                   record_given>>
    /\ UNCHANGED <<gpsdVars, autorxVars, now, touchVars, mainVars>>

-----------------------------------------------------------------------------
(* Xpt2046.get_touch (src/touch.py), called once.                          *)

\* touch.py:24-27
MIN_X == 100
MAX_X == 1962
MIN_Y == 100
MAX_Y == 1900
\* main.py:40-41
DISPLAY_WIDTH == 320
DISPLAY_HEIGHT == 280
\* touch.py:61: timeout = 2 seconds
TIMEOUT_SECONDS == 2
\* touch.py:84-85: each pass sleeps 0.05 s and takes 0.05 from timeout
SAMPLE_PERIOD_MS == 50
\* touch.py:62
CONFIDENCE == 5
\* touch.py:73
DEVIATION_LIMIT == 50

\* the passes of the loop of touch.py:68: timeout starts at 2 and loses 0.05
\* per pass; in binary floating point the 40th subtraction leaves a value
\* just below zero, so the loop makes exactly 2 / 0.05 passes
TimeoutPeriods == (1000 * TIMEOUT_SECONDS) \div SAMPLE_PERIOD_MS

\* what raw_touch returns for a reading out of range
NoSample == <<>>

\* the readings send_command delivers: two touches 16 units apart, a reading
\* left of the panel and a reading below it
AdcReadings == {<<1000, 1000>>, <<1016, 1004>>, <<50, 1000>>, <<1000, 1950>>}

\* raw_touch, touch.py:116-125
RawTouch(x, y) ==
    IF MIN_X <= x /\ x <= MAX_X /\ MIN_Y <= y /\ y <= MAX_Y THEN <<x, y>> ELSE NoSample

\* normalize, touch.py:108-114: int(width / (max - min) * x - min * width /
\* (max - min)), which for readings in range is the integer quotient below
Normalize(x, y) ==
    [x |-> (DISPLAY_WIDTH * (x - MIN_X)) \div (MAX_X - MIN_X),
     y |-> (DISPLAY_HEIGHT * (y - MIN_Y)) \div (MAX_Y - MIN_Y)]

RECURSIVE SumSeq(_)
SumSeq(seq) == IF seq = <<>> THEN 0 ELSE Head(seq) + SumSeq(Tail(seq))

\* touch.py:70-71
MeanX(buf) == SumSeq([i \in DOMAIN buf |-> buf[i][1]]) \div Len(buf)
MeanY(buf) == SumSeq([i \in DOMAIN buf |-> buf[i][2]]) \div Len(buf)

\* touch.py:72, not yet divided by buffer_length
SquaredDeviations(buf) ==
    SumSeq([i \in DOMAIN buf |->
              (buf[i][1] - MeanX(buf)) * (buf[i][1] - MeanX(buf))
            + (buf[i][2] - MeanY(buf)) * (buf[i][2] - MeanY(buf))])

\* a sampler that takes any full ring for a steady touch
DeviationAcceptedAlways(buf) == TRUE

\* touch.py:72-73: dev = sum / buffer_length <= 50
DeviationAccepted(buf) == SquaredDeviations(buf) <= DEVIATION_LIMIT * Len(buf)

\* the reads kept for the history: the last CONFIDENCE of them
Latest(reads, read) ==
    IF Len(reads) < CONFIDENCE THEN Append(reads, read) ELSE Append(Tail(reads), read)

\* five reads, all of them samples, whose mean squared deviation from their
\* integer mean over both axes is at most the limit
SteadyWindow(reads) ==
    /\ Len(reads) = CONFIDENCE
    /\ \A i \in DOMAIN reads : reads[i] # NoSample
    /\ LET mx == SumSeq([i \in DOMAIN reads |-> reads[i][1]]) \div CONFIDENCE
           my == SumSeq([i \in DOMAIN reads |-> reads[i][2]]) \div CONFIDENCE
           total == SumSeq([i \in DOMAIN reads |->
                              (reads[i][1] - mx) * (reads[i][1] - mx)
                            + (reads[i][2] - my) * (reads[i][2] - my)])
       IN  total <= DEVIATION_LIMIT * CONFIDENCE

\* touch.py:58-66: get_touch is called
GetTouchCall ==
    /\ touchPc = "idle"
    /\ timeout' = TimeoutPeriods
    /\ buffer' = [i \in 1..CONFIDENCE |-> <<0, 0>>]
    /\ buffer_index' = 0
    /\ nsamples' = 0
    /\ touchPc' = "test"
    /\ UNCHANGED <<touch_result, acquisitions, recent, window_seen, irq_locked,
                   irq_seen>>
    /\ UNCHANGED notTouch

\* touch.py:68-74 and 87: the while test and the test of the ring
GetTouchTest ==
    /\ touchPc = "test"
    /\ IF timeout > 0
        THEN IF nsamples = Len(buffer) /\ DeviationAccepted(buffer)
            THEN /\ touch_result' = Normalize(MeanX(buffer), MeanY(buffer))
                 /\ touchPc' = "returned"
            ELSE /\ touchPc' = "sample"
                 /\ UNCHANGED touch_result
        ELSE /\ touch_result' = None
             /\ touchPc' = "returned"
    /\ UNCHANGED <<timeout, buffer, buffer_index, nsamples, acquisitions, recent,
                   window_seen, irq_locked, irq_seen>>
    /\ UNCHANGED notTouch

\* a sampler that keeps its count over a read out of range
AfterInvalidKept(count) == count

\* touch.py:77-78: nsamples after a raw read that returned None
AfterInvalid(count) == 0

\* touch.py:76-85: a raw read, the ring, the sleep
GetTouchSample ==
    /\ touchPc = "sample"
    /\ \E reading \in AdcReadings :
        LET sample == RawTouch(reading[1], reading[2]) IN
        /\ IF sample = NoSample
            THEN /\ nsamples' = AfterInvalid(nsamples)
                 /\ UNCHANGED <<buffer, buffer_index>>
            ELSE /\ buffer' = [buffer EXCEPT ![buffer_index + 1] = sample]
                 /\ buffer_index' = (buffer_index + 1) % Len(buffer)
                 /\ nsamples' = IF nsamples + 1 < Len(buffer) THEN nsamples + 1
                                ELSE Len(buffer)
        /\ recent' = Latest(recent, sample)
        /\ window_seen' = (window_seen \/ SteadyWindow(recent'))
    /\ acquisitions' = acquisitions + 1
    /\ timeout' = timeout - 1
    /\ touchPc' = "test"
    /\ UNCHANGED <<touch_result, irq_locked, irq_seen>>
    /\ UNCHANGED notTouch

\* a press handler that takes a reading whatever the flag
PressTakesAlways(locked) == TRUE

\* touch.py:92: if not self.irq_locked
PressTakes(locked) == ~locked

\* irq_press (touch.py:89-99) with _interrupt_handler (touch.py:168-171).
\* gpiozero fires when_pressed and when_released from the one callback thread
\* of the pigpio pin factory (touch.py:8), so a handler runs to its end before
\* the next one begins
IrqPress ==
    /\ touch_queue = "deque" => Len(touch_data) < MaxTouches
    /\ LET seen == IF irq_locked THEN irq_seen
                    ELSE [presses |-> 0, readings |-> 0, delivered |-> 0]
       IN
        /\ seen.presses < MaxPresses
        /\ IF PressTakes(irq_locked)
            THEN /\ irq_locked' = TRUE
                 /\ \E reading \in AdcReadings :
                    LET buff == RawTouch(reading[1], reading[2])
                        point == Normalize(buff[1], buff[2])
                    IN  IF buff # NoSample
                        THEN /\ touch_data' =
                                    TouchAppended(touch_data, <<point.x, point.y>>)
                             /\ irq_seen' = [presses |-> seen.presses + 1,
                                             readings |-> seen.readings + 1,
                                             delivered |-> seen.delivered + 1]
                        ELSE /\ UNCHANGED touch_data
                             /\ irq_seen' = [presses |-> seen.presses + 1,
                                             readings |-> seen.readings + 1,
                                             delivered |-> seen.delivered]
            ELSE /\ irq_seen' = [seen EXCEPT !.presses = seen.presses + 1]
                 /\ UNCHANGED <<irq_locked, touch_data>>
    /\ UNCHANGED <<touchPc, timeout, buffer, buffer_index, nsamples, touch_result,
                   acquisitions, recent, window_seen>>
    /\ UNCHANGED <<dispPc, touch_queue, touch_point, block_touch, last_sonde_position,
                   sleep_time, screen, arrivals, touch_step,
                   record_given>>
    /\ UNCHANGED <<gpsdVars, autorxVars, now, mainVars>>

\* irq_release (touch.py:101-106)
IrqRelease ==
    /\ irq_locked' = IF irq_locked THEN FALSE ELSE irq_locked
    /\ UNCHANGED <<touchPc, timeout, buffer, buffer_index, nsamples, touch_result,
                   acquisitions, recent, window_seen, irq_seen>>
    /\ UNCHANGED notTouch

-----------------------------------------------------------------------------
(* main (src/main.py).                                                     *)

\* main.py:81: the wait for the first GPSD data, in seconds
STARTUP_WAIT == 10

\* main.py:85: the wait sleeps 0.5 s at a time
SLEEPS_PER_SECOND == 2

\* main.py:89
GPS_FIXES_MAXLEN == 10

\* a flag that looks at the newest fix only
ReliableNewest(fixes) == fixes[Len(fixes)] # "NO"

\* "NO" not in gps_fixes (main.py:100)
Reliable(fixes) == \A i \in DOMAIN fixes : fixes[i] # "NO"

\* the main thread is in main() and not inside the signal handler
MainRuns == sigPc = "none"

\* main.py:19-22
MainStartGpsd ==
    /\ mainPc = "start_gpsd"
    /\ GpsdStart
    /\ mainPc' = "start_autorx"
    /\ UNCHANGED <<run, waited, ticks, gps_fixes, observed, latest_gpsd_data,
                   latest_autorx_data, gps_reliable, sigPc>>
    /\ UNCHANGED <<autorxVars, now, touchVars, displayVars>>

\* main.py:24-74: the telemetry listener is started, the controllers are made
\* and the signal handlers installed
MainStartAutorx ==
    /\ mainPc = "start_autorx"
    /\ AutorxStart
    /\ mainPc' = "wait"
    /\ UNCHANGED <<run, waited, ticks, gps_fixes, observed, latest_gpsd_data,
                   latest_autorx_data, gps_reliable, sigPc>>
    /\ UNCHANGED <<gpsdVars, now, touchVars, displayVars>>

\* main.py:80-85: the wait for the first GPSD data; exit(1) raises SystemExit,
\* which neither except clause of main.py:108-112 catches.  start_wait is
\* not read after the wait: waited goes back to 0 when the wait is left.
MainWait ==
    /\ mainPc = "wait"
    /\ MainRuns
    /\ IF Len(gpsd_data) # 0
        THEN mainPc' = "looptest" /\ waited' = 0
        ELSE IF waited >= STARTUP_WAIT * SLEEPS_PER_SECOND
            THEN mainPc' = "exit1" /\ waited' = 0
            ELSE mainPc' = "wait" /\ waited' = waited + 1
    /\ UNCHANGED <<run, ticks, gps_fixes, observed, latest_gpsd_data, latest_autorx_data,
                   gps_reliable, sigPc>>
    /\ UNCHANGED <<gpsdVars, autorxVars, now, touchVars, displayVars>>

\* main.py:90: the while test, followed for at most limit passes
MainLoopTestWithin(limit) ==
    /\ mainPc = "looptest"
    /\ MainRuns
    /\ run => ticks < limit
    /\ mainPc' = IF run THEN "read" ELSE "returned"
    /\ ticks' = IF run THEN ticks + 1 ELSE ticks
    /\ UNCHANGED <<run, waited, gps_fixes, observed, latest_gpsd_data, latest_autorx_data,
                   gps_reliable, sigPc>>
    /\ UNCHANGED <<gpsdVars, autorxVars, now, touchVars, displayVars>>

MainLoopTest == MainLoopTestWithin(MaxTicks)

\* main.py:92-93 up to the test len(autorx_data) == 0
MainRead ==
    /\ mainPc = "read"
    /\ MainRuns
    /\ latest_gpsd_data' = gpsd_data[1]
    /\ IF Len(autorx_data) = 0
        THEN latest_autorx_data' = None /\ mainPc' = "fixes"
        ELSE UNCHANGED latest_autorx_data /\ mainPc' = "index"
    /\ UNCHANGED <<run, waited, ticks, gps_fixes, observed, gps_reliable, sigPc>>
    /\ UNCHANGED <<gpsdVars, autorxVars, now, touchVars, displayVars>>

\* main.py:93 after the test: autorx_data[0].  On a deque that was cleared
\* since the test it raises IndexError, which main.py:108 catches: the loop
\* is left and main returns
MainIndex ==
    /\ mainPc = "index"
    /\ MainRuns
    /\ IF Len(autorx_data) = 0
        THEN UNCHANGED latest_autorx_data /\ mainPc' = "returned"
        ELSE latest_autorx_data' = autorx_data[1] /\ mainPc' = "fixes"
    /\ UNCHANGED <<run, waited, ticks, gps_fixes, observed, latest_gpsd_data,
                   gps_reliable, sigPc>>
    /\ UNCHANGED <<gpsdVars, autorxVars, now, touchVars, displayVars>>

\* main.py:99-100
MainFixes ==
    /\ mainPc = "fixes"
    /\ MainRuns
    /\ gps_fixes' = AppendMaxlen(gps_fixes, Deref(latest_gpsd_data)["fix"],
                                 GPS_FIXES_MAXLEN)
    /\ observed' = Append(observed, Deref(latest_gpsd_data)["fix"])
    /\ gps_reliable' = Reliable(gps_fixes')
    /\ mainPc' = "update"
    /\ UNCHANGED <<run, waited, ticks, latest_gpsd_data, latest_autorx_data, sigPc>>
    /\ UNCHANGED <<gpsdVars, autorxVars, now, touchVars, displayVars>>

\* main.py:105: display_controller.update is entered
MainUpdate ==
    /\ mainPc = "update"
    /\ MainRuns
    /\ UpdateEnter(latest_autorx_data)
    /\ mainPc' = "sleep"
    /\ UNCHANGED <<run, waited, ticks, gps_fixes, observed, latest_gpsd_data,
                   latest_autorx_data, gps_reliable, sigPc>>
    /\ UNCHANGED <<gpsdVars, autorxVars, now, touchVars>>

\* main.py:107, once update has returned
MainSleep ==
    /\ mainPc = "sleep"
    /\ MainRuns
    /\ dispPc = "out"
    /\ mainPc' = "looptest"
    /\ UNCHANGED <<run, waited, ticks, gps_fixes, observed, latest_gpsd_data,
                   latest_autorx_data, gps_reliable, sigPc>>
    /\ UNCHANGED <<gpsdVars, autorxVars, now, touchVars, displayVars>>

\* SIGINT or SIGTERM arrives while main() waits or loops: close (main.py:61-65)
\* clears run and calls autorx_listener.close()
SignalClose ==
    /\ mainPc \in {"wait", "looptest", "read", "index", "fixes", "update", "sleep"}
    /\ sigPc = "none"
    /\ run' = FALSE
    /\ AutorxCloseBegin
    /\ sigPc' = "autorx"
    /\ UNCHANGED <<mainPc, waited, ticks, gps_fixes, observed, latest_gpsd_data,
                   latest_autorx_data, gps_reliable>>
    /\ UNCHANGED <<gpsdVars, now, touchVars, displayVars>>

\* an exception leaves the signal handler: it is raised in main() where the
\* signal interrupted it, inside the try of main.py:76, unwinds a call of
\* update and is caught at main.py:108, after which main() returns
SignalRaises ==
    /\ sigPc' = "none"
    /\ mainPc' = "returned"
    /\ dispPc' = "out"

\* main.py:65-66: autorx_listener.close() returns, gpsd_listener.close() is called
SignalCloseGpsd ==
    /\ sigPc = "autorx"
    /\ IF autorxClosePc = "join" THEN AutorxCloseJoin ELSE UNCHANGED autorxVars
    /\ IF autorxClosePc' = "raised"
        THEN /\ SignalRaises
             /\ UNCHANGED gpsdVars
        ELSE /\ GpsdCloseBegin
             /\ sigPc' = "gpsd"
             /\ UNCHANGED <<mainPc, dispPc>>
    /\ UNCHANGED <<run, waited, ticks, gps_fixes, observed, latest_gpsd_data,
                   latest_autorx_data, gps_reliable>>
    /\ UNCHANGED <<touch_queue, touch_data, touch_point, block_touch,
                   last_sonde_position, sleep_time, screen, arrivals, touch_step,
                   record_given>>
    /\ UNCHANGED <<now, touchVars>>

\* main.py:66-70: gpsd_listener.close() returns, the controllers are closed and
\* the handler returns
SignalReturn ==
    /\ sigPc = "gpsd"
    /\ IF gpsdClosePc = "join" THEN GpsdCloseJoin ELSE UNCHANGED gpsdVars
    /\ IF gpsdClosePc' = "raised"
        THEN SignalRaises
        ELSE /\ sigPc' = "none"
             /\ UNCHANGED <<mainPc, dispPc>>
    /\ UNCHANGED <<run, waited, ticks, gps_fixes, observed, latest_gpsd_data,
                   latest_autorx_data, gps_reliable>>
    /\ UNCHANGED <<touch_queue, touch_data, touch_point, block_touch,
                   last_sonde_position, sleep_time, screen, arrivals, touch_step,
                   record_given>>
    /\ UNCHANGED <<autorxVars, now, touchVars>>

-----------------------------------------------------------------------------
(* The state after construction (gpsd.py:10-17, autorx.py:13-21,           *)
(* main.py:20, 25).                                                        *)

InitGpsd ==
    /\ response = EmptyDict
    /\ gpsdPc = "none"
    /\ gpsd_orphan = "none"
    /\ gpsd_run_listener = FALSE
    /\ gpsd_listener_thread = "None"
    /\ gpsdClosePc = "idle"
    /\ gpsdSocket = "none"
    /\ latest_output = Placeholder
    /\ gpsd_data = <<>>

InitAutorx ==
    /\ datagram = EmptyDict
    /\ autorxPc = "none"
    /\ autorx_run_listener = FALSE
    /\ autorx_listener_thread = "None"
    /\ autorxClosePc = "idle"
    /\ garbage_collect_counter = 0
    /\ autorx_data = <<>>

InitMain ==
    /\ mainPc = "start_gpsd"
    /\ run = TRUE
    /\ waited = 0
    /\ ticks = 0
    /\ gps_fixes = <<>>
    /\ observed = <<>>
    /\ latest_gpsd_data = "unset"
    /\ latest_autorx_data = None
    /\ gps_reliable = TRUE
    /\ sigPc = "none"

\* display.py:150-162; queue is what touch_data is given as
InitDisplay(queue) ==
    /\ dispPc = "out"
    /\ touch_queue = queue
    /\ touch_data = <<>>
    /\ touch_point = NoPoint
    /\ block_touch = FALSE
    /\ last_sonde_position = None
    /\ sleep_time = 0
    /\ screen = "blank"
    /\ arrivals = 0
    /\ touch_step = NoTouchStep
    /\ record_given = FALSE

InitTouch ==
    /\ touchPc = "idle"
    /\ timeout = 0
    /\ buffer = <<>>
    /\ buffer_index = 0
    /\ nsamples = 0
    /\ touch_result = None
    /\ acquisitions = 0
    /\ recent = <<>>
    /\ window_seen = FALSE
    /\ irq_locked = FALSE
    /\ irq_seen = [presses |-> 0, readings |-> 0, delivered |-> 0]

\* a display controller that was given a touch queue (main.py:33), or that
\* made one for the software viewer (display.py:135-136)
InitTouchDisplay ==
    /\ InitGpsd
    /\ InitAutorx
    /\ now = 0
    /\ InitMain
    /\ \E queue \in {"deque", "deque1"} : InitDisplay(queue)
    /\ InitTouch

\* the program with touch disabled and the ILI9341 driver: touch_data is None
Init ==
    /\ InitGpsd
    /\ InitAutorx
    /\ now = 0
    /\ InitMain
    /\ InitDisplay("None")
    /\ InitTouch

-----------------------------------------------------------------------------
(* The position listener with a caller that starts it once and may call    *)
(* close() at any moment afterwards.                                       *)

GpsdCallStart ==
    /\ gpsdPc = "none"
    /\ GpsdStart
    /\ UNCHANGED notGpsd

GpsdCallCloseBegin ==
    /\ gpsdPc # "none"
    /\ GpsdCloseBegin
    /\ UNCHANGED notGpsd

GpsdCallCloseJoin ==
    /\ GpsdCloseJoin
    /\ UNCHANGED notGpsd

\* a step of the position listener thread
GpsdThreadStep ==
    \/ GpsdConnect
    \/ GpsdVersion
    \/ GpsdSetRun
    \/ GpsdLoopTest
    \/ GpsdReceive(Documents)
    \/ GpsdProcess
    \/ GpsdReceiveFails
    \/ GpsdReceiveEof
    \/ GpsdExcept

NextGpsd ==
    \/ GpsdCallStart
    \/ GpsdCallCloseBegin
    \/ GpsdCallCloseJoin
    \/ GpsdThreadStep
    \/ GpsdPeerCloses

SpecGpsd == Init /\ [][NextGpsd]_vars

\* the thread is scheduled as long as it has a step to take
FairSpecGpsd == SpecGpsd /\ WF_vars(GpsdThreadStep)

-----------------------------------------------------------------------------
(* The telemetry listener with a caller that starts it once and may call   *)
(* close() at any moment afterwards, and with the clock.                   *)

AutorxCallStart ==
    /\ autorxPc = "none"
    /\ AutorxStart
    /\ UNCHANGED notAutorx

AutorxCallCloseBegin ==
    /\ autorxPc # "none"
    /\ AutorxCloseBegin
    /\ UNCHANGED notAutorx

AutorxCallCloseJoin ==
    /\ AutorxCloseJoin
    /\ UNCHANGED notAutorx

\* a step of the telemetry listener thread
AutorxThreadStep ==
    \/ AutorxBind
    \/ AutorxLoopTest
    \/ AutorxReceive(Datagrams)
    \/ AutorxTimeout
    \/ AutorxDecode
    \/ AutorxGarbageCollect
    \/ AutorxExcept

NextAutorx ==
    \/ AutorxCallStart
    \/ AutorxCallCloseBegin
    \/ AutorxCallCloseJoin
    \/ AutorxThreadStep
    \/ TimePasses

SpecAutorx == Init /\ [][NextAutorx]_vars

\* the thread is scheduled as long as it has a step to take, and the socket
\* keeps timing out
FairSpecAutorx == SpecAutorx /\ WF_vars(AutorxThreadStep)

-----------------------------------------------------------------------------
(* get_touch, called once, with the readings of AdcReadings.               *)

GetTouchStep ==
    \/ GetTouchTest
    \/ GetTouchSample

NextTouch ==
    \/ GetTouchCall
    \/ GetTouchStep

SpecTouch == Init /\ [][NextTouch]_vars

\* the call runs on as long as it has a step to take
FairSpecTouch == SpecTouch /\ WF_vars(GetTouchStep)

-----------------------------------------------------------------------------
(* The display controller with a touch queue: a caller that calls update   *)
(* again and again, and a producer of touch points.                        *)

\* what the caller passes as autorx_data
DisplayPackets ==
    {None} \cup {Stamped(p, 0) : p \in {q \in Packets : q["type"] = "PAYLOAD_SUMMARY"}}

DisplayCallUpdate ==
    /\ \E packet \in DisplayPackets :
        /\ latest_autorx_data' = packet
        /\ UpdateEnter(packet)
    /\ UNCHANGED <<mainPc, run, waited, ticks, gps_fixes, observed, latest_gpsd_data,
                   gps_reliable, sigPc>>
    /\ UNCHANGED <<gpsdVars, autorxVars, now, touchVars>>

NextDisplay ==
    \/ DisplayCallUpdate
    \/ TouchArrives
    \/ UpdateTouchBlocked
    \/ UpdateTouchLen
    \/ UpdateTouchTake
    \/ UpdateTouchCheck
    \/ UpdateRender

SpecDisplay == InitTouchDisplay /\ [][NextDisplay]_vars

\* the same with touch points of two kinds, inside the button and outside
DetailPoints == {<<85, 15>>, <<101, 15>>}

NextDetail ==
    \/ DisplayCallUpdate
    \/ TouchArrivesFrom(DetailPoints)
    \/ UpdateTouchBlocked
    \/ UpdateTouchLen
    \/ UpdateTouchTake
    \/ UpdateTouchCheck
    \/ UpdateRender

\* the fusion loop calls update once per tick for as long as it runs
\* (main.py:90-105), and a call that has begun runs to its return
FairSpecDetail ==
    /\ InitTouchDisplay /\ [][NextDetail]_vars
    /\ WF_vars(DisplayCallUpdate)
    /\ WF_vars(UpdateTouchBlocked \/ UpdateTouchLen \/ UpdateTouchTake
                    \/ UpdateTouchCheck \/ UpdateRender)

-----------------------------------------------------------------------------
(* The interrupt handlers of Xpt2046 delivering into the queue of           *)
(* main.py:35, which the display controller drains.                        *)

NextIrq ==
    \/ IrqPress
    \/ IrqRelease
    \/ DisplayCallUpdate
    \/ UpdateTouchBlocked
    \/ UpdateTouchLen
    \/ UpdateTouchTake
    \/ UpdateTouchCheck
    \/ UpdateRender

\* the touch queue is the deque of main.py:35
InitIrq ==
    /\ InitTouchDisplay
    /\ touch_queue = "deque"

SpecIrq == InitIrq /\ [][NextIrq]_vars

-----------------------------------------------------------------------------
(* main() with both listeners, touch disabled.  The position listener      *)
(* receives the documents of MainDocuments, the telemetry listener the     *)
(* datagrams of MainDatagrams.                                             *)

MainDocuments ==
    {[class |-> "TPV", mode |-> 3, lat |-> MaxCoord, lon |-> MaxCoord, alt |-> MaxCoord],
     [class |-> "TPV", mode |-> 0]}

MainDatagrams ==
    {[type |-> "PAYLOAD_SUMMARY", callsign |-> "S1", latitude |-> 0, longitude |-> 0]}

\* a step of the position listener thread inside the program
MainGpsdThreadStep ==
    \/ GpsdConnect
    \/ GpsdVersion
    \/ GpsdSetRun
    \/ GpsdLoopTest
    \/ GpsdReceive(MainDocuments)
    \/ GpsdProcess
    \/ GpsdReceiveFails
    \/ GpsdExcept

\* a step of the telemetry listener thread inside the program
MainAutorxThreadStep ==
    \/ AutorxBind
    \/ AutorxLoopTest
    \/ AutorxReceive(MainDatagrams)
    \/ AutorxTimeout
    \/ AutorxDecode
    \/ AutorxGarbageCollect
    \/ AutorxExcept

\* a step of the main thread: main() and the display update it calls
MainThreadStep ==
    \/ MainStartGpsd
    \/ MainStartAutorx
    \/ MainWait
    \/ MainLoopTest
    \/ MainRead
    \/ MainIndex
    \/ MainFixes
    \/ MainUpdate
    \/ MainSleep
    \/ UpdateRender

NextMain ==
    \/ MainThreadStep
    \/ SignalClose
    \/ SignalCloseGpsd
    \/ SignalReturn
    \/ MainGpsdThreadStep
    \/ MainAutorxThreadStep

SpecMain == Init /\ [][NextMain]_vars

\* the same without signals, and with the wall clock of autorx.py:30 and
\* autorx.py:62, datetime.now, set back by the housekeeping age
ClockSetBack ==
    /\ now - GARBAGE_COLLECT_AGE >= -(MaxAges * GARBAGE_COLLECT_AGE)
    /\ now' = now - GARBAGE_COLLECT_AGE
    /\ UNCHANGED notClock

NextRead ==
    \/ MainThreadStep
    \/ MainGpsdThreadStep
    \/ MainAutorxThreadStep
    \/ ClockSetBack

SpecRead == Init /\ [][NextRead]_vars

-----------------------------------------------------------------------------
(* The position listener with a caller that may call start() again after   *)
(* the first start(), whenever it is not inside close().                   *)

\* a later call of GPSDListener.start (gpsd.py:114-119)
GpsdCallStartAgain ==
    /\ gpsdPc # "none"
    /\ gpsdClosePc # "join"
    /\ GpsdStart
    /\ UNCHANGED notGpsd

\* the threads of earlier starts have all ended: their recv raised or their
\* while test found _run_listener False (gpsd.py:100-112)
GpsdOrphanEnds ==
    /\ gpsd_orphan = "running"
    /\ gpsd_orphan' = "none"
    /\ UNCHANGED <<gpsdPc, gpsd_run_listener, gpsd_listener_thread, gpsdClosePc,
                   gpsdSocket, latest_output, response, gpsd_data>>
    /\ UNCHANGED notGpsd

SpecRestart == Init /\ [][NextGpsd \/ GpsdCallStartAgain \/ GpsdOrphanEnds]_vars

\* main() followed for more passes than the reliability window is long, with
\* a position listener that is sent reports with and without a fix and a
\* telemetry listener that is not scheduled
WindowDocuments ==
    {[class |-> "TPV", mode |-> 3, lat |-> 0, lon |-> 0, alt |-> 0],
     [class |-> "TPV", mode |-> 0]}

NextWindow ==
    \/ MainStartGpsd
    \/ MainStartAutorx
    \/ MainWait
    \/ MainLoopTestWithin(MaxWindowTicks)
    \/ MainRead
    \/ MainFixes
    \/ MainUpdate
    \/ MainSleep
    \/ UpdateRender
    \/ GpsdConnect
    \/ GpsdVersion
    \/ GpsdSetRun
    \/ GpsdLoopTest
    \/ GpsdReceive(WindowDocuments)
    \/ GpsdProcess

SpecWindow == Init /\ [][NextWindow]_vars

\* every thread is scheduled as long as it has a step to take
FairSpecMain ==
    /\ SpecMain
    /\ WF_vars(MainThreadStep)
    /\ WF_vars(MainGpsdThreadStep)
    /\ WF_vars(MainAutorxThreadStep)

-----------------------------------------------------------------------------
(* Properties of the position listener.                                    *)

\* the key of a GPSD document that carries a field of the fix
SourceKey(field) ==
    CASE field = "latitude" -> "lat"
      [] field = "longitude" -> "lon"
      [] field = "altitude" -> "alt"
      [] field = "satellites" -> "satellites"
      [] field = "fix" -> "mode"

CarriedFields(doc) == {f \in FixFields : SourceKey(f) \in DOMAIN doc}

\* C1: whatever document the listener applies (a TPV of any mode, a SKY with
\* or without a satellites list, any other class), every field of the latest
\* fix that the document does not carry has the same value after the update
\* as before it.
C1_SparseMerge ==
    [][gpsdPc = "process" =>
        \A f \in FixFields \ CarriedFields(response) :
            latest_output'[f] = latest_output[f]]_vars

\* C1 witness: a fix whose position came from a TPV and whose satellite count
\* came from a SKY: the later document left the earlier one's fields alone
C1_Witness ==
    /\ gpsdPc = "loop"
    /\ latest_output["fix"] = "3D"
    /\ latest_output["latitude"] > 0
    /\ latest_output["altitude"] > 0
    /\ latest_output["satellites"] > 0

\* C5: once the peer has closed the connection, so that reads return no
\* bytes, the position listener leaves its receive loop and its thread ends.
C5_PeerCloseTerminates == (gpsdSocket = "eof") ~> (gpsdPc = "done")

-----------------------------------------------------------------------------
(* Properties of the telemetry listener.                                   *)

\* C2: a housekeeping pass that runs while the buffer is non-empty and the
\* head record's age, now minus its receipt time, is at least 3600 seconds
\* leaves the buffer empty.
C2_StaleHeadCleared ==
    [][(/\ autorxPc = "gc"
        /\ autorxPc' = "loop"
        /\ Len(autorx_data) > 0
        /\ now - autorx_data[1]["time"] >= GARBAGE_COLLECT_AGE)
       => autorx_data' = <<>>]_vars

\* C3: a datagram that fails to decode leaves the buffer as it was and the
\* listener in its loop, where a later payload summary is still appended.
C3_BadDatagramKeepsLoop ==
    [][(autorxPc = "decode" /\ ~Decodes(datagram)) =>
        /\ autorxPc' \in {"decode", "loop", "gc"}
        /\ autorx_data' = autorx_data]_vars

\* C4: once close() has been called on a started listener, at any moment
\* after start(), the listener thread eventually ends, the socket timing out
\* or delivering data all the while.
C4_CloseStopsListener == (autorxClosePc = "join") ~> (autorxPc = "done")

-----------------------------------------------------------------------------
(* Properties of the program.                                              *)

\* the fix record the fusion loop holds
FixRead == Deref(latest_gpsd_data)

\* C6: while the display update of a tick runs, the fix record the fusion
\* loop read at the start of the tick keeps its field values, whatever the
\* position listener does meanwhile.
C6_FixIsSnapshot ==
    [][(mainPc = "sleep" /\ dispPc # "out") => FixRead' = FixRead]_vars

\* C7: once main() has given up its wait for the first position and exited,
\* every listener thread that was started comes to an end.
C7_StartupTimeoutEndsProcess ==
    (mainPc = "exit1") ~> (gpsdPc \in {"none", "done"} /\ autorxPc \in {"none", "done"})

-----------------------------------------------------------------------------
(* Properties of the touch sampler.                                        *)

\* the normalized integer mean of a window of reads
NormalizedMean(reads) ==
    Normalize(SumSeq([i \in DOMAIN reads |-> reads[i][1]]) \div Len(reads),
              SumSeq([i \in DOMAIN reads |-> reads[i][2]]) \div Len(reads))

\* C8: get_touch returns a point if and only if, after one of the raw reads
\* of its 40 sample periods, the five latest reads were all valid with a mean
\* squared deviation of at most 50; the point is the normalized integer mean
\* of those five reads.
C8_PointIffSteadyWindow ==
    touchPc = "returned" =>
        /\ (touch_result # None) <=> window_seen
        /\ touch_result # None => touch_result = NormalizedMean(recent)

\* C9: get_touch makes at most 40 raw reads and comes to its return; when no
\* five latest reads within the budget were all valid with a deviation of at
\* most 50, what it returns is None.
C9_TerminatesWithNone ==
    /\ [](acquisitions <= TimeoutPeriods)
    /\ []((touchPc = "returned" /\ ~window_seen) => touch_result = None)
    /\ (touchPc = "test") ~> (touchPc = "returned")

\* C9 witness: the budget was used up on full windows of valid reads that
\* were never steady, and None came back
C9_Witness ==
    /\ touchPc = "returned"
    /\ acquisitions = TimeoutPeriods
    /\ \A i \in DOMAIN recent : recent[i] # NoSample
    /\ nsamples = CONFIDENCE
    /\ ~window_seen
    /\ touch_result = None

\* C23: whenever get_touch evaluates the deviation test (the ring counted
\* full at the top of a pass), the five latest raw reads were all valid and
\* the ring holds exactly those five, the oldest at the write index: no read
\* made before an invalid read is among them.
C23_RingIsLatestValidReads ==
    (touchPc = "test" /\ timeout > 0 /\ nsamples = Len(buffer)) =>
        /\ Len(recent) = CONFIDENCE
        /\ \A i \in DOMAIN recent :
            /\ recent[i] # NoSample
            /\ buffer[((buffer_index + i - 1) % CONFIDENCE) + 1] = recent[i]

\* the deviation test is evaluated after six raw reads of which the first
\* was out of range: five samples are in the ring, written round once
C23_Witness ==
    /\ touchPc = "test"
    /\ timeout > 0
    /\ acquisitions = 6
    /\ nsamples = CONFIDENCE
    /\ buffer_index = 0

-----------------------------------------------------------------------------
(* Properties of the display controller.                                   *)

\* the target of a button ran: _show_geo_qr drew its screen and set the sleep
TargetRan == sleep_time > 0 /\ screen \in {"qr", "no sonde data"}

\* C10: the check of a touch point (x, y) runs a button's target if and only
\* if x <= sx, y <= sy, x >= ex and y >= ey for a registered region
\* (sx, sy, ex, ey); the region (100, 30, 70, 5) is registered, the point
\* (85, 15) runs its target and the point (60, 15) does not.
C10_HitTest ==
    [][(dispPc = "touch_check" /\ dispPc' # "touch_check") =>
        LET x == touch_point[1]
            y == touch_point[2]
        IN  /\ TargetRan' <=>
                \E region \in TouchButtons :
                    /\ x <= region.start_x
                    /\ y <= region.start_y
                    /\ x >= region.end_x
                    /\ y >= region.end_y
            /\ \E region \in TouchButtons :
                    /\ region.start_x = 100
                    /\ region.start_y = 30
                    /\ region.end_x = 70
                    /\ region.end_y = 5
            /\ (x = 85 /\ y = 15) => TargetRan'
            /\ (x = 60 /\ y = 15) => ~TargetRan']_vars

\* C10 witness: the point (85, 15) was checked and the target ran
C10_Witness ==
    /\ dispPc = "out"
    /\ touch_point = <<85, 15>>
    /\ block_touch
    /\ TargetRan

\* C11: no touch point is hit-tested while touch is blocked.  A point that is
\* hit-tested with the block flag set arrived after the clear of that same
\* update (display.py:326-327), hence while touch was blocked.
C11_BlockedTouchNeverTested ==
    [][(dispPc = "touch_check" /\ dispPc' # "touch_check") => ~block_touch]_vars

\* C12: a call of update hit-tests at most one touch point; the step that
\* hit-tests it leaves the queue empty, and a target runs in that step only
\* when the one point that is hit-tested lies in a button.
C12_OneTouchPerUpdate ==
    /\ [](touch_step.tested <= 1)
    /\ [][(dispPc = "touch_check" /\ dispPc' # "touch_check") =>
            /\ touch_data' = <<>>
            /\ TargetRan' =>
                \E region \in TouchButtons :
                    /\ touch_point[1] <= region.start_x
                    /\ touch_point[2] <= region.start_y
                    /\ touch_point[1] >= region.end_x
                    /\ touch_point[2] >= region.end_y]_vars

\* C12 witness: two points were pending, one outside of the button was
\* hit-tested, both are gone and no target ran
C12_Witness ==
    /\ dispPc = "render"
    /\ touch_step = [tested |-> 1, cleared |-> 2]
    /\ touch_data = <<>>
    /\ ~TargetRan

\* C13: every call of update that is given a telemetry record returns with
\* the last sonde position being that record's (latitude and longitude the
\* nearest multiples of 0.00001 degrees, the time the receipt time): the call
\* that sleeps off a cooldown and returns at once, and the call that goes on
\* to its touch step and its drawing.
C13_PositionFollowsRecord ==
    [][(\/ (dispPc = "out" /\ sleep_time > 0 /\ sleep_time' = 0)
        \/ (dispPc # "out" /\ dispPc' = "out"))
       => (latest_autorx_data' # None =>
            LET record == latest_autorx_data'
                pos == last_sonde_position'
            IN  /\ pos # None
                /\ \A k \in {"latitude", "longitude"} :
                    /\ pos[k] % 10 = 0
                    /\ pos[k] - record[k] <= 5
                    /\ record[k] - pos[k] <= 5
                /\ pos["time"] = record["time"])]_vars

\* C25: a last sonde position that is set is never unset; no step of an
\* update that was given no telemetry record changes it; and the step that
\* draws "No sonde data yet" is taken only when no update that did not sleep
\* was ever given a record.
C25_PositionRetained ==
    /\ [][last_sonde_position # None => last_sonde_position' # None]_vars
    /\ [][latest_autorx_data' = None =>
            last_sonde_position' = last_sonde_position]_vars
    /\ [][(dispPc = "touch_check" /\ dispPc' = "out" /\ screen' = "no sonde data")
            => ~record_given]_vars

\* the button was triggered in an update that was given no record, and the
\* QR screen is shown for the position kept from an earlier update
C25_Witness ==
    /\ dispPc = "out"
    /\ TargetRan
    /\ screen = "qr"
    /\ latest_autorx_data = None
    /\ record_given
    /\ last_sonde_position # None

-----------------------------------------------------------------------------
(* Properties of the fusion loop.                                          *)

\* C26: whatever the listeners append and the housekeeping pass clears
\* meanwhile, the position buffer is never empty again once it holds a fix,
\* and the fusion loop's read of the telemetry buffer yields None or a
\* record: its index into the buffer never finds the buffer empty.
C26_ReadsNeverIndexEmpty ==
    /\ [][Len(gpsd_data) > 0 => Len(gpsd_data') > 0]_vars
    /\ [][(MainRuns /\ mainPc = "read" /\ mainPc' # "read") =>
            /\ Len(gpsd_data) > 0
            /\ \/ mainPc' = "fixes" /\ latest_autorx_data' = None
               \/ mainPc' = "index"]_vars
    /\ [][(MainRuns /\ mainPc = "index" /\ mainPc' # "index") =>
            /\ Len(autorx_data) > 0
            /\ mainPc' = "fixes"
            /\ latest_autorx_data' = autorx_data[1]]_vars

\* C14: at every tick the reliability flag handed to the display is true if
\* and only if none of the fix values read on the last 10 ticks, or on all
\* ticks when there were fewer, is "NO".
C14_ReliabilityWindow ==
    mainPc \in {"update", "sleep"} =>
        (gps_reliable <=>
            \A i \in DOMAIN observed :
                i > Len(observed) - 10 => observed[i] # "NO")

\* C14 witness: "NO" was read on the first tick and "3D" on the ten ticks
\* after it; on the eleventh tick the flag is true again
C14_Witness ==
    /\ mainPc = "update"
    /\ Len(observed) = 11
    /\ observed[1] = "NO"
    /\ \A i \in 2..11 : observed[i] = "3D"
    /\ gps_reliable

-----------------------------------------------------------------------------
(* Properties of close().                                                  *)

\* C15: a call of close() on a listener comes to its return, within the wait
\* of its join, whatever the listener thread is doing: it never ends by
\* raising.
C15_CloseReturns == autorxClosePc # "raised" /\ gpsdClosePc # "raised"

\* C16: a GPSD document that lacks a field _process_response reads (no
\* "class", a TPV document without "mode", one of mode 2 or 3 without "lat" or
\* "lon", one of mode 3 without "alt", a SKY document with a satellites entry
\* without "used") changes no field of the published fix, and the listener
\* goes on to the next round of its loop.
C16_LackingFieldChangesNothing ==
    [][(/\ gpsdPc = "process" /\ gpsdPc' # "process"
        /\ \/ "class" \notin DOMAIN response
           \/ /\ "class" \in DOMAIN response /\ response["class"] = "TPV"
              /\ \/ "mode" \notin DOMAIN response
                 \/ /\ "mode" \in DOMAIN response
                    /\ \/ response["mode"] > 1 /\ "lat" \notin DOMAIN response
                       \/ response["mode"] > 1 /\ "lon" \notin DOMAIN response
                       \/ response["mode"] = 3 /\ "alt" \notin DOMAIN response
           \/ /\ "class" \in DOMAIN response /\ response["class"] = "SKY"
              /\ "satellites" \in DOMAIN response
              /\ \E i \in DOMAIN response["satellites"] :
                    "used" \notin DOMAIN response["satellites"][i])
        => /\ latest_output' = latest_output
           /\ gpsd_data' = <<"latest_output">>
           /\ gpsdPc' = "loop"
           /\ gpsd_run_listener' = gpsd_run_listener]_vars

\* a mode-3 document without "alt" has been processed: its lat, lon and fix
\* are not in the published fix, which still is the 2D fix of before
C16_Witness ==
    /\ gpsdPc = "loop"
    /\ response = [class |-> "TPV", mode |-> 3, lat |-> 1, lon |-> 1]
    /\ latest_output =
        [latitude |-> 0, longitude |-> 0, altitude |-> 0, satellites |-> 1, fix |-> "2D"]
    /\ gpsd_run_listener

\* C17: a TPV document that carries the fields read for its mode sets the
\* fix to "NO" for mode 0 or 1 and leaves latitude, longitude and altitude as
\* they were, even when the document carries them; for mode 2 it sets the
\* fix to "2D" and latitude and longitude to the document's lat and lon and
\* leaves the altitude as it was; for mode 3 it sets the fix to "3D" and
\* latitude, longitude and altitude to the document's lat, lon and alt.
C17_FixByMode ==
    [][(/\ gpsdPc = "process" /\ gpsdPc' # "process"
        /\ "class" \in DOMAIN response /\ response["class"] = "TPV"
        /\ "mode" \in DOMAIN response
        /\ response["mode"] > 1 => {"lat", "lon"} \subseteq DOMAIN response
        /\ response["mode"] = 3 => "alt" \in DOMAIN response)
        => /\ response["mode"] <= 1 =>
                /\ latest_output'["fix"] = "NO"
                /\ \A f \in {"latitude", "longitude", "altitude"} :
                        latest_output'[f] = latest_output[f]
           /\ response["mode"] = 2 =>
                /\ latest_output'["fix"] = "2D"
                /\ latest_output'["latitude"] = response["lat"]
                /\ latest_output'["longitude"] = response["lon"]
                /\ latest_output'["altitude"] = latest_output["altitude"]
           /\ response["mode"] = 3 =>
                /\ latest_output'["fix"] = "3D"
                /\ latest_output'["latitude"] = response["lat"]
                /\ latest_output'["longitude"] = response["lon"]
                /\ latest_output'["altitude"] = response["alt"]
           /\ latest_output'["satellites"] = latest_output["satellites"]
           /\ gpsd_data' = <<"latest_output">>]_vars

\* a mode-2 document that carries lat, lon and alt has been processed: the
\* fix is "2D" with its lat and lon, and the altitude is still the placeholder's
C17_Witness ==
    /\ gpsdPc = "loop"
    /\ response = [class |-> "TPV", mode |-> 2, lat |-> 1, lon |-> 1, alt |-> 1]
    /\ latest_output =
        [latitude |-> 1, longitude |-> 1, altitude |-> 0, satellites |-> 0, fix |-> "2D"]

\* C18: a datagram that decodes to JSON with a "type" other than
\* "PAYLOAD_SUMMARY" leaves the buffer as it was and the listener in its loop;
\* a datagram of type "PAYLOAD_SUMMARY" leaves the buffer holding that record,
\* stamped with the time of its receipt, as the one record the fusion loop
\* finds there, and the listener in its loop.
C18_TypeFilter ==
    [][(/\ autorxPc = "decode" /\ autorxPc' # "decode"
        /\ "notjson" \notin DOMAIN datagram
        /\ "type" \in DOMAIN datagram)
        => /\ autorxPc' \in {"loop", "gc"}
           /\ autorx_data' = IF datagram["type"] = "PAYLOAD_SUMMARY"
                                THEN <<DictUpdate(datagram, [time |-> now])>>
                                ELSE autorx_data]_vars

\* C19: once the listener waits for the first document from GPSD, whatever
\* comes of it (no document at all, a line that is not a document, a document
\* that is not a VERSION banner), the listener gets to publish the
\* placeholder fix, all zero with fix "NO", and to enter its receive loop.
C19_VersionNonFatal ==
    (gpsdPc = "version") ~>
        (/\ gpsdPc = "setrun"
         /\ gpsd_data = <<"latest_output">>
         /\ latest_output = Placeholder)

\* C20: every entry into the Detail screen, with n touch points arrived so
\* far, is followed by the return of an update that has drawn the Idle or the
\* Tracking screen, with the sleep duration at 0 and touch not blocked, and
\* with no touch point arrived since; or else a further touch point arrives.
C20_DetailReturns ==
    \A n \in 0..MaxArrivals :
        (TargetRan /\ arrivals = n) ~>
            \/ /\ dispPc = "out"
               /\ screen \in {"idle", "tracking"}
               /\ sleep_time = 0
               /\ ~block_touch
               /\ arrivals = n
            \/ arrivals > n

\* the one touch point that ever arrived was inside the button, and an update
\* has since drawn the Tracking screen, with no sleep left and touch unblocked
C20_Witness ==
    /\ dispPc = "out"
    /\ arrivals = 1
    /\ touch_point = <<85, 15>>
    /\ touch_step = NoTouchStep
    /\ screen = "tracking"
    /\ sleep_time = 0
    /\ ~block_touch

\* C21: every update that gets to its drawing (no sleep pending, no button
\* triggered) draws the Idle screen if and only if the telemetry record it
\* was given is None, and the Tracking screen otherwise, whatever screen was
\* shown before.
C21_ScreenByTelemetry ==
    [][(dispPc = "render" /\ dispPc' = "out") =>
        /\ screen' \in {"idle", "tracking"}
        /\ screen' = "idle" <=> latest_autorx_data = None]_vars

\* with no touch point ever arrived, an update given a record has drawn the
\* Tracking screen, and a later update given none has drawn the Idle screen
C21_Witness ==
    /\ dispPc = "out"
    /\ arrivals = 0
    /\ last_sonde_position # None
    /\ latest_autorx_data = None
    /\ screen = "idle"

-----------------------------------------------------------------------------
(* Properties of the interrupt handlers.                                   *)

C22_OneDeliveryPerPress ==
    irq_locked => /\ irq_seen.readings = 1
                  /\ irq_seen.delivered <= 1

\* three press signals without a release: one reading, one point delivered
C22_Witness ==
    /\ irq_locked
    /\ irq_seen = [presses |-> 3, readings |-> 1, delivered |-> 1]

\* C27: whatever sequence of start() and close() calls the position listener
\* object has been given, a close() whose join timed out included, at most
\* one listener thread of the object is running: no thread of an earlier
\* start() runs beside the thread of the latest one (gpsd.py:114-133; the
\* telemetry listener has the same start() and close(), autorx.py:78-97)
C27_OneListenerThread ==
    LET running(pc) == IF pc \in {"none", "done"} THEN 0 ELSE 1
    IN  running(gpsdPc) + (IF gpsd_orphan = "running" THEN 1 ELSE 0) <= 1

====
